---------------------------- MODULE Spec2Model ----------------------------
(***************************************************************************)
(* StepCreateVolume of builder/openstack/step_create_volume.go: the step   *)
(* that provisions a block-storage volume (Run) and its compensating       *)
(* teardown (Cleanup).                                                     *)
(*                                                                         *)
(* The step instance is run once by the pipeline and then cleaned up.      *)
(* Every access to the shared state bag, every client construction, every  *)
(* remote request (with its reply) and every message to the ui is appended *)
(* to `log`, tagged with the invocation that made it (0: Run, k >= 1: the  *)
(* k-th Cleanup).                                                          *)
(***************************************************************************)
EXTENDS Integers, Sequences, FiniteSets, TLC

VARIABLES
    UseBlockStorageVolume, \* StepCreateVolume.UseBlockStorageVolume
    VolumeSize,            \* config.VolumeSize
    volumeID,              \* StepCreateVolume.volumeID
    state,                 \* the multistep.StateBag: key -> value
    pc,                    \* where the pipeline is in Run / Cleanup
    action,                \* what Run returned: "none" until it returns
    volumeSize,            \* Run's local volumeSize
    volume,                \* Run's local volume.ID, "" before the create reply
    waitErr,               \* what WaitForVolume returned to Run
    polls,                 \* status polls WaitForVolume has made
    remoteVolumes,         \* the volumes that exist in the remote system
    cleanups,              \* Cleanup invocations started so far
    ctxDone,               \* the ctx passed to Run has been cancelled
    log                    \* the observable events, in order

vars == << UseBlockStorageVolume, VolumeSize, volumeID, state, pc, action,
           volumeSize, volume, waitErr, polls, remoteVolumes, cleanups, ctxDone,
           log >>

---------------------------------------------------------------------------
(* Bounds of the model. *)

\* The largest configured size and the largest size the image lookup yields.
MaxSize == 2

\* How often the pipeline may invoke Cleanup on the step instance.
MaxCleanups == 2

\* The number of "creating" polls after which the readiness wait gives up.
MaxPolls == 3

---------------------------------------------------------------------------
(* Values. *)

\* Go's nil error.
Nil == "<nil>"

\* The causes a collaborator may fail with.
Causes == {"connection refused", "quota exceeded"}

\* gophercloud's ErrDefault404 message, the answer to a request for a
\* volume that does not exist.
ErrNotFound == "Resource not found"

\* The identifiers the remote system may assign to a created volume.
RemoteIDs == {"v-1", "v-2"}

\* The value under the "source_image" key, put there by an earlier step.
SourceImage == "img-1"

\* The step's VolumeName, VolumeType and VolumeAvailabilityZone fields.
VolumeName == "packer-vol"
VolumeType == "ssd"
VolumeAvailabilityZone == "nova"

\* config.VolumeName, config.ImageMetadata
ConfigVolumeName == "packer-vol"
ImageMetadata == "meta"

\* What WaitForVolume reports for a volume in the error state, and for one
\* that did not become available before the deadline.
WaitErrFailed == "volume is in error state"
WaitErrTimeout == "timeout waiting for volume"

\* The statuses a poll may see.
Statuses == {"creating", "available", "error"}

\* multistep.ActionContinue, multistep.ActionHalt
ActionContinue == "continue"
ActionHalt == "halt"

\* volumes.CreateOpts of a request that carries none.
NoOpts == [Size |-> 0, VolumeType |-> "", AvailabilityZone |-> "",
           Name |-> "", ImageID |-> "", Metadata |-> ""]

---------------------------------------------------------------------------
(* Events of the log. *)

EvGet(inv, key) ==
    [inv |-> inv, kind |-> "get", name |-> key, arg |-> "", opts |-> NoOpts,
     err |-> Nil, ret |-> "", n |-> 0]

EvPut(inv, key, val) ==
    [inv |-> inv, kind |-> "put", name |-> key, arg |-> val, opts |-> NoOpts,
     err |-> Nil, ret |-> "", n |-> 0]

EvUi(inv, sev, text) ==
    [inv |-> inv, kind |-> "ui", name |-> sev, arg |-> text, opts |-> NoOpts,
     err |-> Nil, ret |-> "", n |-> 0]

\* The cancellation of the ctx of invocation inv.
EvCancel(inv) ==
    [inv |-> inv, kind |-> "ctx", name |-> "cancel", arg |-> "", opts |-> NoOpts,
     err |-> Nil, ret |-> "", n |-> 0]

\* A call of a collaborator: its target, its options, and its reply (err,
\* and the string ret or the integer n it returned).
EvCall(inv, op, target, opts, err, ret, n) ==
    [inv |-> inv, kind |-> "call", name |-> op, arg |-> target, opts |-> opts,
     err |-> err, ret |-> ret, n |-> n]

---------------------------------------------------------------------------
(* Formatting: fmt.Errorf and fmt.Sprintf, by what they produce. *)

\* fmt's %q of a string without special characters.
Quote(s) == "\"" \o s \o "\""

ErrInitBlockStorage(cause) == "Error initializing block storage client: " \o cause

ErrInitImage(cause) == "Error initializing image client: " \o cause

ErrResolveSize(cause) == "Error creating volume: " \o cause

ErrCreate(cause) == "Error creating volume: " \o cause

\* The wait's error wrapped without its cause.
ErrWait_NoCause(cause) == "Error waiting for volume"

ErrWait(cause) == "Error waiting for volume: " \o cause

MsgCreating == "Creating volume..."

MsgWaiting(name, id) ==
    "Waiting for volume " \o name \o " (volume id: " \o id \o ") to become available..."

MsgVolumeID(id) == "Volume ID: " \o id

\* The manual-deletion warning without the identifier.
MsgCleanupClient_NoID(id) ==
    "Error cleaning up volume. Please delete the volume manually"

MsgCleanupClient(id) ==
    "Error cleaning up volume. Please delete the volume manually: " \o id

MsgDeleting(id) == "Deleting volume: " \o id \o " ..."

MsgCleanupDelete(id, err) ==
    "Error cleaning up volume " \o Quote(id) \o ": " \o err
        \o ". This may need manual deletion."

---------------------------------------------------------------------------
Init ==
    /\ UseBlockStorageVolume \in BOOLEAN
    /\ VolumeSize \in 0..MaxSize
    /\ volumeID = ""
    /\ state = [k \in {"config", "ui", "source_image"} |->
                   IF k = "source_image" THEN SourceImage ELSE k]
    /\ pc = "init"
    /\ action = "none"
    /\ volumeSize = 0
    /\ volume = ""
    /\ waitErr = Nil
    /\ polls = 0
    /\ remoteVolumes = {}
    /\ cleanups = 0
    /\ ctxDone = FALSE
    /\ log = << >>

\* state.Put(key, val)
Put(key, val) == [k \in DOMAIN state \cup {key} |-> IF k = key THEN val ELSE state[k]]

---------------------------------------------------------------------------
(* Run *)

\* The amount of log a step appends.
Emit(evs) == log' = log \o evs

\* Halt with its return missing: Run goes on to the create request.
Halt_NoReturn(before, err, say) ==
    /\ state' = Put("error", err)
    /\ Emit(before \o << EvPut(0, "error", err) >>
                   \o (IF say THEN << EvUi(0, "error", err) >> ELSE << >>))
    /\ action' = ActionHalt
    /\ pc' = "r_create"

\* state.Put("error", err) [; ui.Error(err.Error())]; return ActionHalt,
\* after the events `before` of the same step.
Halt(before, err, say) ==
    /\ state' = Put("error", err)
    /\ Emit(before \o << EvPut(0, "error", err) >>
                   \o (IF say THEN << EvUi(0, "error", err) >> ELSE << >>))
    /\ action' = ActionHalt
    /\ pc' = "ran"

\* The image size looked up whatever the configured size.
NeedsImageSize_Always(size) == TRUE

\* volumeSize == 0: the size has to come from the source image.

NeedsImageSize(size) == size = 0

\* The activation test inverted.
Disabled_Inverted == UseBlockStorageVolume

\* !s.UseBlockStorageVolume: the step has nothing to do.

Disabled == ~UseBlockStorageVolume

\* The activation gate, and the reads of the state bag that follow it.
Run_Gate ==
    /\ pc = "init"
    /\ IF Disabled
       THEN /\ action' = ActionContinue
            /\ pc' = "ran"
            /\ UNCHANGED log
       ELSE /\ Emit(<< EvGet(0, "config"), EvGet(0, "ui"), EvGet(0, "source_image") >>)
            /\ pc' = "r_bsclient"
            /\ UNCHANGED action
    /\ UNCHANGED << ctxDone, UseBlockStorageVolume, VolumeSize, volumeID, state, volumeSize,
                    volume, waitErr, polls, remoteVolumes, cleanups >>

\* config.blockStorageV3Client(), then volumeSize := config.VolumeSize.
Run_BlockStorageClient ==
    /\ pc = "r_bsclient"
    /\ \E err \in {Nil} \cup Causes :
         LET call == EvCall(0, "blockStorageV3Client", "", NoOpts, err, "", 0) IN
         IF err # Nil
         THEN /\ Halt(<< call >>, ErrInitBlockStorage(err), FALSE)
              /\ UNCHANGED volumeSize
         ELSE /\ Emit(<< call >>)
              /\ volumeSize' = VolumeSize
              /\ pc' = IF NeedsImageSize(VolumeSize) THEN "r_imgclient" ELSE "r_create"
              /\ UNCHANGED << state, action >>
    /\ UNCHANGED << ctxDone, UseBlockStorageVolume, VolumeSize, volumeID, volume, waitErr,
                    polls, remoteVolumes, cleanups >>

\* config.imageV2Client()
Run_ImageClient ==
    /\ pc = "r_imgclient"
    /\ \E err \in {Nil} \cup Causes :
         LET call == EvCall(0, "imageV2Client", "", NoOpts, err, "", 0) IN
         IF err # Nil
         THEN Halt(<< call >>, ErrInitImage(err), FALSE)
         ELSE /\ Emit(<< call >>)
              /\ pc' = "r_getsize"
              /\ UNCHANGED << state, action >>
    /\ UNCHANGED << ctxDone, UseBlockStorageVolume, VolumeSize, volumeID, volumeSize, volume,
                    waitErr, polls, remoteVolumes, cleanups >>

\* volumeSize, err = GetVolumeSize(imageClient, sourceImage)
Run_GetVolumeSize ==
    /\ pc = "r_getsize"
    /\ \/ \E n \in 0..MaxSize :
            /\ Emit(<< EvCall(0, "GetVolumeSize", state["source_image"], NoOpts, Nil, "", n) >>)
            /\ volumeSize' = n
            /\ pc' = "r_create"
            /\ UNCHANGED << state, action >>
       \/ \E err \in Causes :
            /\ Halt(<< EvCall(0, "GetVolumeSize", state["source_image"], NoOpts, err, "", 0) >>,
                    ErrResolveSize(err), TRUE)
            /\ volumeSize' = 0
    /\ UNCHANGED << ctxDone, UseBlockStorageVolume, VolumeSize, volumeID, volume, waitErr,
                    polls, remoteVolumes, cleanups >>

\* The volumes.CreateOpts Run builds.
CreateOpts(size) ==
    [Size |-> size, VolumeType |-> VolumeType,
     AvailabilityZone |-> VolumeAvailabilityZone, Name |-> VolumeName,
     ImageID |-> state["source_image"], Metadata |-> ImageMetadata]

\* The identifier not recorded.
RecordVolumeID_Skipped(id) == volumeID' = volumeID

\* s.volumeID = volume.ID

RecordVolumeID(id) == volumeID' = id

\* ui.Say("Creating volume..."); volumes.Create(...).Extract(); on success
\* s.volumeID = volume.ID and the "Waiting for volume" message.
Run_Create ==
    /\ pc = "r_create"
    /\ \/ \E id \in RemoteIDs \ remoteVolumes :
            /\ Emit(<< EvUi(0, "say", MsgCreating),
                       EvCall(0, "Create", "", CreateOpts(volumeSize), Nil, id, 0),
                       EvUi(0, "say", MsgWaiting(ConfigVolumeName, id)) >>)
            /\ remoteVolumes' = remoteVolumes \cup {id}
            /\ volume' = id
            /\ RecordVolumeID(id)
            /\ pc' = "r_wait"
            /\ UNCHANGED << state, action >>
       \/ \E err \in Causes :
            /\ Halt(<< EvUi(0, "say", MsgCreating),
                       EvCall(0, "Create", "", CreateOpts(volumeSize), err, "", 0) >>,
                    ErrCreate(err), TRUE)
            /\ UNCHANGED << remoteVolumes, volume, volumeID >>
    /\ UNCHANGED << ctxDone, UseBlockStorageVolume, VolumeSize, volumeSize, waitErr, polls,
                    cleanups >>

\* One poll of WaitForVolume(blockStorageClient, volume.ID): available
\* ends the wait with nil, error with an error, and the deadline passes
\* after MaxPolls polls that saw the volume still creating.
WaitForVolume_Poll ==
    /\ pc = "r_wait"
    /\ \E status \in Statuses :
         /\ Emit(<< EvCall(0, "GetStatus", volume, NoOpts, Nil, status, 0) >>)
         /\ polls' = polls + 1
         /\ IF status = "available"
            THEN waitErr' = Nil /\ pc' = "r_finish"
            ELSE IF status = "error"
            THEN waitErr' = WaitErrFailed /\ pc' = "r_finish"
            ELSE IF polls + 1 >= MaxPolls
            THEN waitErr' = WaitErrTimeout /\ pc' = "r_finish"
            ELSE waitErr' = waitErr /\ pc' = "r_wait"
    /\ UNCHANGED << ctxDone, UseBlockStorageVolume, VolumeSize, volumeID, state, action,
                    volumeSize, volume, remoteVolumes, cleanups >>

\* WaitForVolume's error ignored.
WaitFailed_Ignored(err) == FALSE

\* err != nil of WaitForVolume's result.

WaitFailed(err) == err # Nil

\* What Run does with WaitForVolume's result.
Run_Finish ==
    /\ pc = "r_finish"
    /\ IF WaitFailed(waitErr)
       THEN Halt(<< >>, ErrWait(waitErr), TRUE)
       ELSE /\ state' = Put("volume_id", volume)
            /\ Emit(<< EvUi(0, "message", MsgVolumeID(volume)),
                       EvPut(0, "volume_id", volume) >>)
            /\ action' = ActionContinue
            /\ pc' = "ran"
    /\ UNCHANGED << ctxDone, UseBlockStorageVolume, VolumeSize, volumeID, volumeSize, volume,
                    waitErr, polls, remoteVolumes, cleanups >>

---------------------------------------------------------------------------
(* Cleanup *)

\* Cleanup returning at once whatever volumeID is, and never.
NothingToClean_Always(id) == TRUE

NothingToClean_Never(id) == FALSE

\* s.volumeID == "": nothing to clean up.

NothingToClean(id) == id = ""

\* The gate of Cleanup and the reads of the state bag that follow it.
Cleanup_Gate ==
    /\ pc = "ran"
    /\ cleanups < MaxCleanups
    /\ cleanups' = cleanups + 1
    /\ IF NothingToClean(volumeID)
       THEN /\ pc' = "ran"
            /\ UNCHANGED log
       ELSE /\ Emit(<< EvGet(cleanups + 1, "config"), EvGet(cleanups + 1, "ui") >>)
            /\ pc' = "c_client"
    /\ UNCHANGED << ctxDone, UseBlockStorageVolume, VolumeSize, volumeID, state, action,
                    volumeSize, volume, waitErr, polls, remoteVolumes >>

\* config.blockStorageV3Client() in Cleanup.
Cleanup_Client ==
    /\ pc = "c_client"
    /\ \E err \in {Nil} \cup Causes :
         LET call == EvCall(cleanups, "blockStorageV3Client", "", NoOpts, err, "", 0) IN
         IF err # Nil
         THEN /\ Emit(<< call, EvUi(cleanups, "error", MsgCleanupClient(volumeID)) >>)
              /\ pc' = "ran"
         ELSE /\ Emit(<< call, EvUi(cleanups, "say", MsgDeleting(volumeID)) >>)
              /\ pc' = "c_delete"
    /\ UNCHANGED << ctxDone, UseBlockStorageVolume, VolumeSize, volumeID, state, action,
                    volumeSize, volume, waitErr, polls, remoteVolumes, cleanups >>

\* What the remote system may answer to a delete of id: success or a
\* failure for a volume that exists, not found for one that does not.
DeleteReplies(id) ==
    IF id \in remoteVolumes THEN {Nil} \cup Causes ELSE {ErrNotFound} \cup Causes

\* Whether Cleanup reports the delete's reply as a failure.
DeleteFailed(err) == err # Nil

\* Cleanup_Delete forgetting the identifier once the delete succeeded.
Cleanup_Delete_ClearsID ==
    /\ pc = "c_delete"
    /\ \E err \in DeleteReplies(volumeID) :
         /\ Emit(<< EvCall(cleanups, "Delete", volumeID, NoOpts, err, "", 0) >>
                 \o (IF DeleteFailed(err)
                     THEN << EvUi(cleanups, "error", MsgCleanupDelete(volumeID, err)) >>
                     ELSE << >>))
         /\ remoteVolumes' = IF err = Nil THEN remoteVolumes \ {volumeID} ELSE remoteVolumes
         /\ volumeID' = IF err = Nil THEN "" ELSE volumeID
    /\ pc' = "ran"
    /\ UNCHANGED << ctxDone, UseBlockStorageVolume, VolumeSize, state, action,
                    volumeSize, volume, waitErr, polls, cleanups >>

\* volumes.Delete(blockStorageClient, s.volumeID, ...).ExtractErr()
Cleanup_Delete ==
    /\ pc = "c_delete"
    /\ \E err \in DeleteReplies(volumeID) :
         /\ Emit(<< EvCall(cleanups, "Delete", volumeID, NoOpts, err, "", 0) >>
                 \o (IF DeleteFailed(err)
                     THEN << EvUi(cleanups, "error", MsgCleanupDelete(volumeID, err)) >>
                     ELSE << >>))
         /\ remoteVolumes' = IF err = Nil THEN remoteVolumes \ {volumeID} ELSE remoteVolumes
    /\ pc' = "ran"
    /\ UNCHANGED << ctxDone, UseBlockStorageVolume, VolumeSize, volumeID, state, action,
                    volumeSize, volume, waitErr, polls, cleanups >>

---------------------------------------------------------------------------
(* The pipeline *)

\* The pipeline cancels the ctx it passed to Run while Run is executing.
\* Run receives ctx and never reads it, and WaitForVolume is called with
\* the client and the identifier only: no step of Run depends on ctxDone.
Ctx_Cancel ==
    /\ pc \in {"r_bsclient", "r_imgclient", "r_getsize", "r_create", "r_wait", "r_finish"}
    /\ ~ctxDone
    /\ ctxDone' = TRUE
    /\ Emit(<< EvCancel(0) >>)
    /\ UNCHANGED << UseBlockStorageVolume, VolumeSize, volumeID, state, pc, action,
                    volumeSize, volume, waitErr, polls, remoteVolumes, cleanups >>

---------------------------------------------------------------------------
(* The remote system *)

\* A volume ceases to exist between Run and Cleanup (deleted by a later
\* step's teardown or out of band): Cleanup deletes it only "if exists".
Remote_VolumeGone ==
    /\ pc = "ran"
    /\ \E v \in remoteVolumes : remoteVolumes' = remoteVolumes \ {v}
    /\ UNCHANGED << ctxDone, UseBlockStorageVolume, VolumeSize, volumeID, state, pc, action,
                    volumeSize, volume, waitErr, polls, cleanups, log >>

---------------------------------------------------------------------------
Next ==
    \/ Run_Gate
    \/ Run_BlockStorageClient
    \/ Run_ImageClient
    \/ Run_GetVolumeSize
    \/ Run_Create
    \/ WaitForVolume_Poll
    \/ Run_Finish
    \/ Cleanup_Gate
    \/ Cleanup_Client
    \/ Cleanup_Delete
    \/ Remote_VolumeGone
    \/ Ctx_Cancel

\* The steps of Run, which runs to completion on the pipeline's thread.
RunStep ==
    \/ Run_BlockStorageClient
    \/ Run_ImageClient
    \/ Run_GetVolumeSize
    \/ Run_Create
    \/ WaitForVolume_Poll
    \/ Run_Finish

Spec == Init /\ [][Next]_vars

\* Run, once invoked, keeps executing: every call it makes returns.
FairSpec == Spec /\ WF_vars(RunStep)

---------------------------------------------------------------------------
(* Reading the log. *)

\* The events of invocation inv (0: Run, k >= 1: the k-th Cleanup).
Events(inv) == SelectSeq(log, LAMBDA e : e.inv = inv)

\* The calls of op made by invocation inv, with their replies.
Calls(inv, op) ==
    SelectSeq(log, LAMBDA e : e.inv = inv /\ e.kind = "call" /\ e.name = op)

\* The writes of key to the state bag.
Puts(key) == SelectSeq(log, LAMBDA e : e.kind = "put" /\ e.name = key)

\* The ui messages of severity sev emitted by invocation inv.
UiOf(inv, sev) ==
    SelectSeq(log, LAMBDA e : e.inv = inv /\ e.kind = "ui" /\ e.name = sev)

\* Whether t occurs in s.
Contains(s, t) ==
    \E i \in 1..(Len(s) - Len(t) + 1) : SubSeq(s, i, i + Len(t) - 1) = t

\* The remote system acknowledged a create request.
CreateAcked == \E i \in DOMAIN log :
    log[i].kind = "call" /\ log[i].name = "Create" /\ log[i].err = Nil

\* The remote system rejected the create request.
CreateRejected == \E i \in DOMAIN log :
    log[i].kind = "call" /\ log[i].name = "Create" /\ log[i].err # Nil

\* The identifiers the remote system assigned in its acknowledgements.
AckedIDs == { log[i].ret : i \in { j \in DOMAIN log :
    log[j].kind = "call" /\ log[j].name = "Create" /\ log[j].err = Nil } }

\* Run has returned.
RunReturned == pc \in {"ran", "c_client", "c_delete"}

\* The Cleanup invocations that have returned.
CleanupsReturned == IF pc = "ran" THEN 1..cleanups ELSE 1..(cleanups - 1)

\* The state bag as the pipeline handed it to the step.
InitialBag == [k \in {"config", "ui", "source_image"} |->
                  IF k = "source_image" THEN SourceImage ELSE k]

---------------------------------------------------------------------------
(* C1 *)

\* C1 as stated: every Cleanup invocation that has returned after a Run in
\* which the create request was acknowledged has issued exactly one delete
\* request, for the recorded volume identifier.
C1_ExactlyOneDelete ==
    CreateAcked =>
        \A k \in CleanupsReturned :
            /\ Len(Calls(k, "Delete")) = 1
            /\ \A i \in DOMAIN Calls(k, "Delete") : Calls(k, "Delete")[i].arg = volumeID

\* C1, amended: every Cleanup invocation that has returned after a Run in
\* which the create request was acknowledged (Run having returned continue
\* or halt) has resolved the block-storage client once, and has issued
\* exactly one delete request when that resolution succeeded and none when
\* it failed; every delete request targets the recorded identifier, which
\* is the one the remote system assigned.
C1_OneDeleteIfClient ==
    CreateAcked =>
        \A k \in CleanupsReturned :
            LET client == Calls(k, "blockStorageV3Client")
                deletes == Calls(k, "Delete")
            IN /\ Len(client) = 1
               /\ Len(deletes) = (IF client[1].err = Nil THEN 1 ELSE 0)
               /\ \A i \in DOMAIN deletes :
                    deletes[i].arg = volumeID /\ deletes[i].arg \in AckedIDs

\* A Cleanup that has returned after a halted Run whose create request was
\* acknowledged, having issued its one delete request.
C1_Witness ==
    /\ CreateAcked
    /\ action = ActionHalt
    /\ pc = "ran"
    /\ cleanups >= 1
    /\ Len(Calls(cleanups, "Delete")) = 1

---------------------------------------------------------------------------
(* C2 *)

\* C2: once Run has passed or left the create call, volumeID is non-empty
\* exactly if a create request was acknowledged, and then it is the
\* identifier the remote system assigned, whatever the readiness outcome.
C2_RecordedIffAcked ==
    pc \notin {"init", "r_bsclient", "r_imgclient", "r_getsize", "r_create"} =>
        /\ (volumeID # "") <=> CreateAcked
        /\ CreateAcked => AckedIDs = {volumeID}

\* Run has halted after an acknowledged create whose volume never became
\* ready, and the identifier is recorded.
C2_Witness ==
    /\ CreateAcked
    /\ RunReturned
    /\ action = ActionHalt
    /\ waitErr = WaitErrTimeout
    /\ volumeID \in RemoteIDs

---------------------------------------------------------------------------
(* C3 *)

\* C3: with UseBlockStorageVolume false, Run returns continue and neither
\* Run nor any later Cleanup reads the state bag, constructs a client,
\* makes a remote call, writes the state bag or emits a message.
C3_DisabledIsNoOp ==
    ~UseBlockStorageVolume =>
        /\ log = << >>
        /\ state = InitialBag
        /\ remoteVolumes = {}
        /\ pc \in {"init", "ran"}
        /\ pc = "ran" => action = ActionContinue

\* A disabled step after Run and a Cleanup.
C3_Witness ==
    /\ ~UseBlockStorageVolume
    /\ pc = "ran"
    /\ action = ActionContinue
    /\ cleanups >= 1

---------------------------------------------------------------------------
(* C4 *)

\* The status the last poll of the readiness wait saw.
LastStatus ==
    LET st == Calls(0, "GetStatus") IN IF st = << >> THEN "" ELSE st[Len(st)].ret

\* C4: after an acknowledged create, a Run whose wait ended with the
\* volume available has written the identifier, equal to volumeID, under
\* "volume_id" and returned continue; a Run whose wait ended in the error
\* state or at the deadline has returned halt, "volume_id" is never
\* written, and volumeID stays recorded.
C4_PublishIffReady ==
    (RunReturned /\ CreateAcked) =>
        IF LastStatus = "available"
        THEN /\ action = ActionContinue
             /\ "volume_id" \in DOMAIN state
             /\ state["volume_id"] = volumeID
             /\ volumeID \in AckedIDs
             /\ Len(Puts("volume_id")) = 1
             /\ Puts("volume_id")[1].arg = volumeID
        ELSE /\ action = ActionHalt
             /\ "volume_id" \notin DOMAIN state
             /\ Puts("volume_id") = << >>
             /\ volumeID \in AckedIDs

\* size 0, statuses creating, creating, available: Run has continued and
\* the state bag holds the created identifier.
C4_Witness ==
    /\ RunReturned
    /\ VolumeSize = 0
    /\ Len(Calls(0, "GetStatus")) = 3
    /\ LastStatus = "available"
    /\ action = ActionContinue
    /\ state["volume_id"] \in RemoteIDs

---------------------------------------------------------------------------
(* C5 *)

\* C5: while volumeID is empty no Cleanup invocation does anything: none
\* reads the state bag, constructs a client, makes a remote call or emits
\* a message, and Cleanup is never past its gate.
C5_CleanupNoOpWhenEmpty ==
    volumeID = "" =>
        /\ \A i \in DOMAIN log : log[i].inv = 0
        /\ pc \notin {"c_client", "c_delete"}

\* An enabled Run halted without an acknowledged create, and Cleanup was
\* invoked.
C5_Witness ==
    /\ UseBlockStorageVolume
    /\ CreateRejected
    /\ volumeID = ""
    /\ pc = "ran"
    /\ cleanups >= 1

---------------------------------------------------------------------------
(* C6 *)

\* C6 as stated: a Cleanup whose delete request was answered "resource not
\* found" reports no error and no manual-deletion warning.
C6_NotFoundTolerated ==
    \A k \in CleanupsReturned :
        (\E i \in DOMAIN Calls(k, "Delete") : Calls(k, "Delete")[i].err = ErrNotFound)
            => UiOf(k, "error") = << >>

---------------------------------------------------------------------------
(* C7 *)

\* Run is past its size resolution.
SizeResolved == pc \notin {"init", "r_bsclient", "r_imgclient", "r_getsize"}

\* The create request carries the configured size when that is greater
\* than 0, and the result of the image-size lookup when it is 0.
CreateSizeResolved ==
    \A i \in DOMAIN Calls(0, "Create") :
        Calls(0, "Create")[i].opts.Size =
            IF VolumeSize > 0
            THEN VolumeSize
            ELSE Calls(0, "GetVolumeSize")[Len(Calls(0, "GetVolumeSize"))].n

\* C7 as stated: the create request's size is the configured size or the
\* lookup's result, and an enabled Run constructs the image client and
\* looks the image size up if and only if the configured size is 0.
C7_LookupIffZero ==
    (UseBlockStorageVolume /\ SizeResolved) =>
        /\ CreateSizeResolved
        /\ (Calls(0, "imageV2Client") # << >>) <=> (VolumeSize = 0)
        /\ (Calls(0, "GetVolumeSize") # << >>) <=> (VolumeSize = 0)

\* C7, amended: the create request's size is the configured size when that
\* is greater than 0 and the lookup's result verbatim when it is 0; an
\* enabled Run constructs the image client if and only if the configured
\* size is 0 and the block-storage client was constructed, and looks the
\* image size up if and only if, in addition, the image client was
\* constructed; each happens at most once.
C7_LookupIffZeroAndClients ==
    (UseBlockStorageVolume /\ SizeResolved) =>
        LET bs == Calls(0, "blockStorageV3Client")
            img == Calls(0, "imageV2Client")
            look == Calls(0, "GetVolumeSize")
        IN /\ CreateSizeResolved
           /\ Len(bs) = 1 /\ Len(img) <= 1 /\ Len(look) <= 1
           /\ (img # << >>) <=> (VolumeSize = 0 /\ bs[1].err = Nil)
           /\ (look # << >>) <=> (VolumeSize = 0 /\ bs[1].err = Nil /\ img[1].err = Nil)

\* size 0 and a lookup that gave a positive size: the create request
\* carries the lookup's result.
C7_Witness ==
    /\ VolumeSize = 0
    /\ Len(Calls(0, "Create")) = 1
    /\ Len(Calls(0, "GetVolumeSize")) = 1
    /\ Calls(0, "GetVolumeSize")[1].n > 0
    /\ Calls(0, "Create")[1].opts.Size = Calls(0, "GetVolumeSize")[1].n

---------------------------------------------------------------------------
(* C8 *)

\* A client construction or the image-size lookup of Run failed.
ClientOrSizeFailed == \E i \in DOMAIN log :
    /\ log[i].inv = 0 /\ log[i].kind = "call" /\ log[i].err # Nil
    /\ log[i].name \in {"blockStorageV3Client", "imageV2Client", "GetVolumeSize"}

\* C8: when block-storage client construction, image client construction
\* or the image-size lookup fails, Run has halted and no create request is
\* ever issued; when the create request is rejected, Run has halted and
\* no status is ever polled; in all these cases volumeID stays empty and
\* no Cleanup makes any call.
C8_FailuresHaltBeforeCreate ==
    /\ ClientOrSizeFailed =>
          RunReturned /\ action = ActionHalt /\ Calls(0, "Create") = << >>
    /\ CreateRejected =>
          RunReturned /\ action = ActionHalt /\ Calls(0, "GetStatus") = << >>
    /\ (ClientOrSizeFailed \/ CreateRejected) =>
          /\ volumeID = ""
          /\ remoteVolumes = {}
          /\ \A i \in DOMAIN log : log[i].kind = "call" => log[i].inv = 0

\* The image-size lookup failed and Cleanup was invoked afterwards.
C8_Witness ==
    /\ \E i \in DOMAIN log : log[i].name = "GetVolumeSize" /\ log[i].err # Nil
    /\ pc = "ran"
    /\ cleanups >= 1

---------------------------------------------------------------------------
(* C9 *)

\* The phase a collaborator's call belongs to.
PhaseOf(name) ==
    IF name \in {"blockStorageV3Client", "imageV2Client"} THEN "client"
    ELSE IF name = "GetVolumeSize" THEN "size"
    ELSE "create"

\* The error values Run records for a failure of a phase with a cause.
PhaseErrors(phase, cause) ==
    IF phase = "client" THEN {ErrInitBlockStorage(cause), ErrInitImage(cause)}
    ELSE IF phase = "size" THEN {ErrResolveSize(cause)}
    ELSE {ErrCreate(cause)}

\* C9 as stated: the error Run records for a failure of client
\* construction, size resolution or create submission differs from the
\* error it records for each of the other two phases with the same cause.
C9_DistinctPhaseErrors ==
    \A i \in DOMAIN log :
        (/\ log[i].inv = 0 /\ log[i].kind = "call" /\ log[i].err # Nil
         /\ log[i].name \in {"blockStorageV3Client", "imageV2Client",
                             "GetVolumeSize", "Create"})
        => /\ "error" \in DOMAIN state
           /\ state["error"] \in PhaseErrors(PhaseOf(log[i].name), log[i].err)
           /\ \A q \in {"client", "size", "create"} \ {PhaseOf(log[i].name)} :
                state["error"] \notin PhaseErrors(q, log[i].err)

---------------------------------------------------------------------------
(* C10 *)

\* The client resolution or the delete request of the k-th Cleanup failed.
CleanupFailed(k) == \E i \in DOMAIN log :
    /\ log[i].inv = k /\ log[i].kind = "call" /\ log[i].err # Nil
    /\ log[i].name \in {"blockStorageV3Client", "Delete"}

\* C10: a Cleanup whose client resolution or delete request failed has
\* emitted one error message, which names the identifier, has made at most
\* one delete request, and has returned with that failure; no Cleanup
\* writes the state bag, so an "error" key is there only as Run wrote it.
C10_CleanupFailuresOnlyWarn ==
    /\ \A k \in 1..cleanups :
          CleanupFailed(k) =>
             /\ k \in CleanupsReturned
             /\ Len(Calls(k, "Delete")) <= 1
             /\ Len(UiOf(k, "error")) = 1
             /\ Contains(UiOf(k, "error")[1].arg, volumeID)
    /\ \A i \in DOMAIN log : log[i].kind = "put" => log[i].inv = 0
    /\ "error" \in DOMAIN state =>
          /\ action = ActionHalt
          /\ Len(Puts("error")) = 1
          /\ Puts("error")[1].arg = state["error"]
    /\ RunReturned /\ action = ActionContinue => "error" \notin DOMAIN state

\* After a Run that continued, a Cleanup's delete request failed and a
\* second Cleanup could not resolve the client: the state bag holds no
\* "error".
C10_Witness ==
    /\ action = ActionContinue
    /\ pc = "ran"
    /\ cleanups = 2
    /\ \E i \in DOMAIN log :
          log[i].inv = 1 /\ log[i].name = "Delete" /\ log[i].err \in Causes
    /\ \E i \in DOMAIN log :
          log[i].inv = 2 /\ log[i].name = "blockStorageV3Client" /\ log[i].err # Nil
    /\ "error" \notin DOMAIN state

---------------------------------------------------------------------------
(* C11 *)

\* The readiness wait was still going on when event i was logged: the
\* create request had been acknowledged and no poll had ended the wait.
WaitingAt(i) ==
    /\ \E j \in 1..(i - 1) :
          log[j].kind = "call" /\ log[j].name = "Create" /\ log[j].err = Nil
    /\ \A j \in 1..(i - 1) :
          (log[j].kind = "call" /\ log[j].name = "GetStatus") => log[j].ret = "creating"
    /\ Cardinality({ j \in 1..(i - 1) :
          log[j].kind = "call" /\ log[j].name = "GetStatus" }) < MaxPolls

\* The places in the log where the ctx was cancelled during the wait.
CancelsWhileWaiting ==
    { i \in DOMAIN log : log[i].kind = "ctx" /\ WaitingAt(i) }

\* What context.Canceled reads.
ErrCanceled == "context canceled"

\* C11 as stated: once the ctx is cancelled while Run waits for the volume,
\* no further status poll is made, and Run returns halt with an error
\* that reports the cancellation, volumeID still being recorded.
C11_CancelStopsWait ==
    \A i \in CancelsWhileWaiting :
        /\ \A j \in DOMAIN log :
              (j > i /\ log[j].kind = "call") => log[j].name # "GetStatus"
        /\ volumeID \in AckedIDs
        /\ RunReturned =>
              /\ action = ActionHalt
              /\ "error" \in DOMAIN state
              /\ Contains(state["error"], ErrCanceled)

---------------------------------------------------------------------------
(* C12 *)

\* The writes to the state bag, by Run and by every Cleanup.
AllPuts == SelectSeq(log, LAMBDA e : e.kind = "put")

\* C12 as stated: across Run and Cleanup the step writes the state bag at
\* most once, and that write is the publication of the volume identifier.
C12_SingleWriteIsPublication ==
    /\ Len(AllPuts) <= 1
    /\ \A i \in DOMAIN AllPuts : AllPuts[i].name = "volume_id"
    /\ DOMAIN state \subseteq DOMAIN InitialBag \cup {"volume_id"}

\* C12, amended: across Run and Cleanup the step writes the state bag at
\* most once, and Run makes that write: the publication of the volume
\* identifier under "volume_id" when Run returns continue, the halting
\* error under "error" when Run returns halt. Every other access is a
\* read: the keys the pipeline supplied keep their values and Cleanup
\* writes nothing.
C12_SingleWrite ==
    /\ Len(AllPuts) <= 1
    /\ \A i \in DOMAIN AllPuts :
          /\ AllPuts[i].inv = 0
          /\ RunReturned
          /\ \/ /\ AllPuts[i].name = "volume_id"
                /\ AllPuts[i].arg = volumeID
                /\ action = ActionContinue
             \/ /\ AllPuts[i].name = "error"
                /\ action = ActionHalt
          /\ DOMAIN state = DOMAIN InitialBag \cup {AllPuts[i].name}
          /\ state[AllPuts[i].name] = AllPuts[i].arg
    /\ AllPuts = << >> => state = InitialBag
    /\ \A k \in DOMAIN InitialBag : state[k] = InitialBag[k]
    /\ \A i \in DOMAIN log :
          (log[i].inv >= 1 /\ log[i].kind \in {"get", "put"}) => log[i].kind = "get"

\* Run halted after its one write, of "error", and a Cleanup that read
\* the state bag has returned.
C12_Witness ==
    /\ pc = "ran"
    /\ cleanups >= 1
    /\ action = ActionHalt
    /\ Len(AllPuts) = 1
    /\ AllPuts[1].name = "error"
    /\ \E i \in DOMAIN log : log[i].inv = 1 /\ log[i].kind = "get"

---------------------------------------------------------------------------
(* C13 *)

\* Every poll up to the deadline saw the volume still creating.
StuckCreating ==
    /\ Len(Calls(0, "GetStatus")) = MaxPolls
    /\ \A i \in DOMAIN Calls(0, "GetStatus") : Calls(0, "GetStatus")[i].ret = "creating"

\* What holds of a Run whose volume never left "creating": the wait has
\* ended, Run halts with the timeout error, and volumeID stays recorded.
TimedOutRunHalts ==
    /\ Len(Calls(0, "GetStatus")) <= MaxPolls
    /\ StuckCreating =>
          /\ pc # "r_wait"
          /\ volumeID \in AckedIDs
          /\ RunReturned =>
                /\ action = ActionHalt
                /\ state["error"] = ErrWait(WaitErrTimeout)
                /\ "volume_id" \notin DOMAIN state

\* C13 as stated: Run, once invoked, returns; a Run whose volume never
\* leaves "creating" ends its wait at the deadline and halts with a
\* timeout error, volumeID recorded, and every Cleanup that follows has
\* issued a delete for it.
C13_TimeoutThenDelete ==
    /\ (pc # "init") ~> RunReturned
    /\ [](TimedOutRunHalts
          /\ (StuckCreating =>
                \A k \in CleanupsReturned :
                    \E i \in DOMAIN Calls(k, "Delete") :
                        Calls(k, "Delete")[i].arg = volumeID))

\* C13, amended: Run, once invoked, returns; a Run whose volume never
\* leaves "creating" ends its wait at the deadline and halts with a
\* timeout error, volumeID recorded, and every Cleanup that follows has
\* issued a delete for it when its client resolution succeeded, and none
\* when that failed.
C13_TimeoutThenDeleteIfClient ==
    /\ (pc # "init") ~> RunReturned
    /\ [](TimedOutRunHalts
          /\ (StuckCreating =>
                \A k \in CleanupsReturned :
                    /\ Len(Calls(k, "blockStorageV3Client")) = 1
                    /\ Calls(k, "blockStorageV3Client")[1].err = Nil =>
                          /\ Len(Calls(k, "Delete")) = 1
                          /\ Calls(k, "Delete")[1].arg = volumeID
                    /\ Calls(k, "blockStorageV3Client")[1].err # Nil =>
                          Calls(k, "Delete") = << >>))

\* The volume never left "creating", Run halted with the timeout error,
\* and the Cleanup that followed issued the delete.
C13_Witness ==
    /\ StuckCreating
    /\ pc = "ran"
    /\ action = ActionHalt
    /\ state["error"] = ErrWait(WaitErrTimeout)
    /\ cleanups = 1
    /\ Len(Calls(1, "Delete")) = 1
    /\ Calls(1, "Delete")[1].arg = volumeID

---------------------------------------------------------------------------
(* C14 *)

\* C14: once volumeID is set, no step of Run, of Cleanup or of anything
\* else clears or changes it.
C14_NeverCleared == [][volumeID # "" => volumeID' = volumeID]_vars

\* volumeID is still set after a Run that halted on the readiness wait, a
\* Cleanup whose delete succeeded and a Cleanup that followed it.
C14_Witness ==
    /\ volumeID \in RemoteIDs
    /\ action = ActionHalt
    /\ pc = "ran"
    /\ cleanups = 2
    /\ \E i \in DOMAIN log :
          log[i].inv = 1 /\ log[i].name = "Delete" /\ log[i].err = Nil
    /\ Calls(2, "Delete") # << >>
    /\ Calls(2, "Delete")[1].arg = volumeID

---------------------------------------------------------------------------
(* C15 *)

\* Where in the log Run called op.
RunCallIdx(op) ==
    { i \in DOMAIN log : log[i].inv = 0 /\ log[i].kind = "call" /\ log[i].name = op }

\* Run called op before place j of the log, and the call succeeded.
OkBefore(op, j) == \E i \in RunCallIdx(op) : i < j /\ log[i].err = Nil

\* C15: Run's visible actions come in a fixed order, each after the
\* success of the one before: the block-storage client, then (only with
\* configured size 0) the image client and the image-size lookup, then
\* one create request, the recording of volumeID, the status polls, and
\* the write of "volume_id" after the poll that saw the volume available.
C15_OrderedAndGuarded ==
    /\ \A op \in {"blockStorageV3Client", "imageV2Client", "GetVolumeSize", "Create"} :
          Cardinality(RunCallIdx(op)) <= 1
    /\ \A j \in RunCallIdx("imageV2Client") :
          VolumeSize = 0 /\ OkBefore("blockStorageV3Client", j)
    /\ \A j \in RunCallIdx("GetVolumeSize") :
          VolumeSize = 0 /\ OkBefore("imageV2Client", j)
    /\ \A j \in RunCallIdx("Create") :
          /\ OkBefore("blockStorageV3Client", j)
          /\ IF VolumeSize = 0
             THEN OkBefore("GetVolumeSize", j)
             ELSE RunCallIdx("imageV2Client") = {} /\ RunCallIdx("GetVolumeSize") = {}
    /\ \A j \in RunCallIdx("GetStatus") : OkBefore("Create", j)
    /\ pc \in {"r_wait", "r_finish"} => (CreateAcked /\ volumeID \in AckedIDs)
    /\ \A j \in DOMAIN log :
          (log[j].kind = "put" /\ log[j].name = "volume_id") =>
              /\ \E i \in RunCallIdx("GetStatus") : i < j /\ log[i].ret = "available"
              /\ \A i \in RunCallIdx("GetStatus") : i < j
              /\ log[j].arg = volumeID
    /\ (UseBlockStorageVolume /\ RunReturned /\ ~ClientOrSizeFailed) =>
          Cardinality(RunCallIdx("Create")) = 1

\* A Run with configured size 0 that went through every step: both
\* clients, the lookup, the create request, three polls and the write of
\* "volume_id".
C15_Witness ==
    /\ VolumeSize = 0
    /\ RunReturned
    /\ action = ActionContinue
    /\ RunCallIdx("GetVolumeSize") # {}
    /\ Cardinality(RunCallIdx("GetStatus")) = 3
    /\ Puts("volume_id") # << >>

---------------------------------------------------------------------------
(* C16 *)

\* The description Run gives the phase in which a call of op failed.
PhaseDescription(op) ==
    IF op = "blockStorageV3Client" THEN "Error initializing block storage client"
    ELSE IF op = "imageV2Client" THEN "Error initializing image client"
    ELSE IF op \in {"GetVolumeSize", "Create"} THEN "Error creating volume"
    ELSE "Error waiting for volume"

\* The calls of Run that failed.
RunFailedIdx ==
    { i \in DOMAIN log : log[i].inv = 0 /\ log[i].kind = "call" /\ log[i].err # Nil }

\* C16: Run returns halt exactly if it wrote one value under "error", and
\* that value is the failing phase's description followed by the
\* underlying cause; a Run that returns continue writes no "error", no Run
\* writes both "error" and "volume_id", and nothing is written before Run
\* returns.
C16_HaltIffErrorWritten ==
    /\ ~RunReturned => AllPuts = << >>
    /\ Len(Puts("error")) <= 1
    /\ ~(Puts("error") # << >> /\ Puts("volume_id") # << >>)
    /\ RunReturned =>
          /\ (action = ActionHalt) <=> (Len(Puts("error")) = 1)
          /\ action = ActionContinue =>
                Puts("error") = << >> /\ "error" \notin DOMAIN state
          /\ action = ActionHalt =>
                /\ Puts("error")[1].inv = 0
                /\ state["error"] = Puts("error")[1].arg
                /\ Cardinality(RunFailedIdx) <= 1
                /\ \A i \in RunFailedIdx :
                      state["error"] = PhaseDescription(log[i].name) \o ": " \o log[i].err
                /\ RunFailedIdx = {} =>
                      /\ waitErr \in {WaitErrFailed, WaitErrTimeout}
                      /\ state["error"] = PhaseDescription("WaitForVolume") \o ": " \o waitErr

\* Run halted on a readiness failure with the wrapped error written.
C16_Witness ==
    /\ RunReturned
    /\ action = ActionHalt
    /\ RunFailedIdx = {}
    /\ state["error"] = "Error waiting for volume: volume is in error state"

=============================================================================
